---- MODULE Spec2Model ----
(***************************************************************************)
(* openapi2moonwalk: the visitors that turn an OpenAPI 3.0 document into a *)
(* MoonWalk document.                                                      *)
(*                                                                         *)
(* Strings that the code concatenates or rewrites (paths, names, content   *)
(* types, request and response keys) are sequences of one-character        *)
(* strings, so that concatenation is \o and the regular expression of the  *)
(* key sanitizer is computed character by character.  A JavaScript         *)
(* undefined or null is NULL.  A JavaScript object or Map is a function    *)
(* from its keys.                                                          *)
(***************************************************************************)
EXTENDS Integers, Sequences, FiniteSets, TLC

VARIABLES
    variant,    \* which OperationVisitor class the sub-walks instantiate
    pathKeys,   \* the module-level memo Map of getPathKey
    call,       \* the getPathKey call in progress: node, result, scanned
    document,   \* Oas30Visitor.document
    item,       \* the path item node being walked
    todo,       \* nodes the top-level traversal still has to visit
    op,         \* the operation node of the running visitOperation / sub-walk
    cts,        \* content types visitOperation still has to fan out to
    opv,        \* the running OperationVisitor: request, contentType
    sub,        \* nodes the sub-walk still has to visit
    seen,       \* nodes the sub-walk has visited, last first
    pc,         \* position of the process
    err,        \* the uncaught error that ended the process, or NULL
    sanIn,      \* argument of the key sanitizer
    sanOut      \* its result

vars == <<variant, pathKeys, call, document, item, todo, op, cts, opv, sub,
          seen, pc, err, sanIn, sanOut>>

\* undefined / null: of a word-valued field, of a string built from
\* characters (the empty string, which the code's || treats alike), and of a
\* node or object
NULL == "undefined"
NoStr == <<>>
NoNode == [undefined |-> TRUE]

\* ------------------------------------------------------------------ bounds
MaxStrLen == 5      \* longest string handed to the sanitizer on its own
MaxOps == 2         \* operations of one path item
MaxParams == 2      \* parameters of one operation in a sub-walk
MaxMediaTypes == 2  \* media types of one response
MaxResponses == 1   \* responses of one operation in a sub-walk

\* ----------------------------------------------------------------- strings
Chars == {"a", "B", "_", "/", "+", "-"}
WordChars == {"a", "b", "c", "A", "B", "C", "_",
              "0", "1", "2", "3", "4", "5", "6", "7", "8", "9"}

\* \W of the regular expression: anything but [A-Za-z0-9_]
IsNonWord(c) == c \notin WordChars

\* String.prototype.toLowerCase, one character
LowerChar(c) ==
    CASE c = "A" -> "a"
      [] c = "B" -> "b"
      [] c = "C" -> "c"
      [] OTHER -> c

toLowerCase(s) == [i \in 1..Len(s) |-> LowerChar(s[i])]

\* Length of the match of /\W+(?!$)/ at position i of s, 0 when there is
\* none: the longest run of non-word characters starting at i that is still
\* followed by a character (the engine gives back characters of a greedy
\* \W+ until the negative lookahead for the end of input succeeds).
MatchLen(s, i) ==
    LET ok == {n \in 1..(Len(s) - i) :
                  \A k \in i..(i + n - 1) : IsNonWord(s[k])}
    IN IF ok = {} THEN 0 ELSE CHOOSE n \in ok : \A m \in ok : m <= n

RECURSIVE ReplaceFrom(_, _)
\* s.replace(/\W+(?!$)/g, "-") from position i on: every match, left to
\* right, becomes one hyphen; unmatched characters are copied.
ReplaceFrom(s, i) ==
    IF i > Len(s) THEN <<>>
    ELSE LET n == MatchLen(s, i)
         IN IF n > 0 THEN <<"-">> \o ReplaceFrom(s, i + n)
            ELSE <<s[i]>> \o ReplaceFrom(s, i + 1)

\* altered: the lookahead dropped, /\W+/g
SanitizeNoLookahead(s) ==
    LET RECURSIVE R(_)
        R(i) == IF i > Len(s) THEN <<>>
                ELSE IF IsNonWord(s[i])
                     THEN LET e == CHOOSE j \in i..Len(s) :
                                     /\ \A k \in i..j : IsNonWord(s[k])
                                     /\ (j = Len(s) \/ ~IsNonWord(s[j + 1]))
                          IN <<"-">> \o R(e + 1)
                     ELSE <<s[i]>> \o R(i + 1)
    IN toLowerCase(R(1))

\* contentType.replace(/\W+(?!$)/g, "-").toLowerCase()
Sanitize(s) == toLowerCase(ReplaceFrom(s, 1))


\* ------------------------------------------------------- maps and sequences
EmptyMap == [k \in {} |-> NULL]

\* obj[k] = v / map.set(k, v)
Put(m, k, v) == [x \in (DOMAIN m) \cup {k} |-> IF x = k THEN v ELSE m[x]]

RECURSIVE Join(_, _)
\* Array.prototype.join
Join(names, sep) ==
    IF names = <<>> THEN <<>>
    ELSE IF Len(names) = 1 THEN names[1]
    ELSE names[1] \o sep \o Join(Tail(names), sep)

RECURSIVE SeqsUpTo(_, _)
\* the sequences over S of length at most n
SeqsUpTo(S, n) ==
    IF n = 0 THEN {<<>>}
    ELSE LET shorter == SeqsUpTo(S, n - 1)
         IN shorter \cup {Append(q, x) : q \in shorter, x \in S}

Range(q) == {q[i] : i \in 1..Len(q)}

\* ------------------------------------------------------------ source nodes
\* The nodes of the parsed OpenAPI document (the data model of
\* @apicurio/data-models), as far as the visitors read them.
Methods == {"get", "put", "post", "patch", "delete"}

\* node.getMethod()
MethodName(m) ==
    CASE m = "get" -> <<"g", "e", "t">>
      [] m = "put" -> <<"p", "u", "t">>
      [] m = "post" -> <<"p", "o", "s", "t">>
      [] m = "patch" -> <<"p", "a", "t", "c", "h">>
      [] m = "delete" -> <<"d", "e", "l", "e", "t", "e">>

S_a == <<"a">>
S_b == <<"b">>
S_slash_p == <<"/", "p">>
S_slash_q == <<"/", "q">>
S_put == <<"p", "u", "t">>
S_x == <<"x">>
S_a_slash_b == <<"a", "/", "b">>
S_a_plus_b == <<"a", "+", "b">>
S_c == <<"c">>
S_default == <<"d", "e", "f", "a", "u", "l", "t">>
S_200 == <<"2", "0", "0">>
S_201 == <<"2", "0", "1">>
S_202 == <<"2", "0", "2">>
S_204 == <<"2", "0", "4">>
S_400 == <<"4", "0", "0">>
S_401 == <<"4", "0", "1">>
S_403 == <<"4", "0", "3">>
S_404 == <<"4", "0", "4">>
S_405 == <<"4", "0", "5">>
S_500 == <<"5", "0", "0">>
S_OK == <<"O", "K">>
S_Created == <<"C", "r", "e", "a", "t", "e", "d">>
S_Accepted == <<"A", "c", "c", "e", "p", "t", "e", "d">>
S_No_Content == <<"N", "o", " ", "C", "o", "n", "t", "e", "n", "t">>
S_Bad_Request == <<"B", "a", "d", " ", "R", "e", "q", "u", "e", "s", "t">>
S_Unauthorized == <<"U", "n", "a", "u", "t", "h", "o", "r", "i", "z", "e", "d">>
S_Forbidden == <<"F", "o", "r", "b", "i", "d", "d", "e", "n">>
S_Not_Found == <<"N", "o", "t", " ", "F", "o", "u", "n", "d">>
S_Method_Not_Allowed == <<"M", "e", "t", "h", "o", "d", " ", "N", "o", "t", " ",
                          "A", "l", "l", "o", "w", "e", "d">>

Schema(t) == [type |-> t, format |-> NULL, description |-> NULL]

Param(n, loc, req, t) ==
    [ref |-> NULL, name |-> n, in |-> loc, required |-> req, schema |-> Schema(t)]

\* a parameter that is a $ref to a reusable parameter: it has no name and no
\* location of its own
RefParam == [ref |-> "#/components/parameters/r", name |-> NoStr, in |-> NULL,
             required |-> FALSE, schema |-> NoNode]

P_qa == Param(S_a, "query", TRUE, "integer")
P_qa2 == Param(S_a, "query", FALSE, "string")
P_pa == Param(S_a, "path", TRUE, "string")
P_qb == Param(S_b, "query", FALSE, "integer")
P_hb == Param(S_b, "header", TRUE, "string")

Params == {P_qa, P_qa2, P_pa, P_qb, P_hb, RefParam}

MediaType(n, t) == [name |-> n, schema |-> Schema(t)]

MediaTypes == {MediaType(S_a_slash_b, "string"), MediaType(S_a_plus_b, "integer"),
               MediaType(S_c, "string")}

\* a response: its status code (none for the default response), its
\* description and its media types
Response(code, desc, mts) == [statusCode |-> code, description |-> desc, mediaTypes |-> mts]

Extension(n, val) == [name |-> n, value |-> val]

\* a request body: the media types of its content map, in order
RequestBody(mts) == [content |-> mts]

ExternalDocs == [url |-> "https://example.com/docs"]

Operation(m, id, ps, body, rs, xs, docs) ==
    [method |-> MethodName(m), operationId |-> id, parameters |-> ps,
     requestBody |-> body, responses |-> rs, extensions |-> xs,
     externalDocs |-> docs]

PathItem(p, os, ps) == [path |-> p, ops |-> os, parameters |-> ps]

\* -------------------------------------------------------------- getPathKey
\* op.parameters?.filter((v) => v.in === "query").map((v) => v.name) || []
qpsForOp(o) ==
    LET qs == SelectSeq(o.parameters, LAMBDA v : v.in = "query")
    IN [i \in 1..Len(qs) |-> qs[i].name]

\* altered: the operations scanned in another order
ScanOrderDeleteFirst == <<"delete", "get", "put", "post", "patch">>

\* [node.get, node.put, node.post, node.patch, node.delete]
ScanOrder == <<"get", "put", "post", "patch", "delete">>

pathOps(node) == [i \in 1..Len(ScanOrder) |-> node.ops[ScanOrder[i]]]

RECURSIVE AddAll(_, _)
\* names.forEach((name) => queryParams.add(name)): a Set keeps the order of
\* first insertion
AddAll(set, names) ==
    IF names = <<>> THEN set
    ELSE AddAll(IF names[1] \in Range(set) THEN set ELSE Append(set, names[1]),
                Tail(names))

RECURSIVE ScanOps(_, _)
\* for (const op of pathOps.filter((v) => v !== null)) ...
ScanOps(os, set) ==
    IF os = <<>> THEN set
    ELSE ScanOps(Tail(os),
                 IF os[1] = NoNode THEN set ELSE AddAll(set, qpsForOp(os[1])))

\* the key computed for a path item whose path is not memoized
ComputeKey(node) ==
    LET queryParams == ScanOps(pathOps(node), <<>>)
    IN IF Len(queryParams) = 0 THEN node.path
       ELSE node.path \o <<"{", "?">> \o Join(queryParams, <<",">>) \o <<"}">>

\* altered: no memo, the key is computed and stored on every call
getPathKeyNoMemo(keys, node) ==
    [keys |-> Put(keys, node.path, ComputeKey(node)),
     result |-> ComputeKey(node), scanned |-> TRUE]

\* getPathKey(node), given the memo: the memo after the call, the value
\* returned, and whether the operations were scanned
getPathKey(keys, node) ==
    IF node.path \notin DOMAIN keys
    THEN [keys |-> Put(keys, node.path, ComputeKey(node)),
          result |-> ComputeKey(node), scanned |-> TRUE]
    ELSE [keys |-> keys, result |-> keys[node.path], scanned |-> FALSE]


\* -------------------------------------------------------- OperationVisitor
\* The repository has two OperationVisitor classes: the one declared inside
\* visitor.ts ("inline") and the one of the module operationVisitor.ts
\* ("module").  A handler takes the visitor's request object and the node
\* and gives the request object after the visit and the error thrown, if any.
Variants == {"inline", "module"}

Ok(req) == [request |-> req, err |-> NULL]
Throw(req, msg) == [request |-> req, err |-> msg]

\* Library.writeNode(node): the JSON form of a node, made by the library
WriteNode(n) == [json |-> n]

Skeleton == [type |-> "object", properties |-> EmptyMap]

\* node.parameters?.some((p) => ["path", "query"].includes(p.in))
SomePathOrQuery(o) ==
    \E i \in 1..Len(o.parameters) : o.parameters[i].in \in {"path", "query"}

\* OperationVisitor.visitOperation, both classes
OpVisitOperation(v, ct, o) ==
    LET parameterSchema == IF SomePathOrQuery(o) THEN Skeleton ELSE NoNode
        base == [method |-> o.method, parameterSchema |-> parameterSchema,
                 contentType |-> ct, responses |-> EmptyMap]
    IN IF v = "inline" THEN Ok(base)
       ELSE Ok(Put(base, "contentSchema", IF ct # NoStr THEN EmptyMap ELSE NoNode))

\* { type: oasSchema.type || undefined, format: ..., description: ... }
InlineSchema(sch) ==
    [type |-> sch.type, format |-> sch.format, description |-> sch.description]

\* paramSchema["required"] ??= []; paramSchema["required"].push(name)
PushRequired(ps, name) ==
    Put(ps, "required",
        IF "required" \in DOMAIN ps THEN Append(ps.required, name) ELSE <<name>>)

\* paramSchema["allOf"] ??= []; paramSchema["allOf"].push(Library.writeNode(node))
PushAllOf(ps, node) ==
    Put(ps, "allOf",
        IF "allOf" \in DOMAIN ps THEN Append(ps.allOf, WriteNode(node))
        ELSE <<WriteNode(node)>>)

TypeErrorUndefined == "TypeError: Cannot read properties of undefined"
NotImplemented == "Error: Method not implemented."

\* OperationVisitor.visitParameter of visitor.ts
InlineVisitParameter(req, node) ==
    IF node.in \in {"path", "query"}
    THEN IF req.parameterSchema = NoNode THEN Throw(req, TypeErrorUndefined)
         ELSE LET ps1 == [req.parameterSchema EXCEPT
                             !.properties = Put(@, node.name, InlineSchema(node.schema))]
                  ps2 == IF node.required THEN PushRequired(ps1, node.name) ELSE ps1
              IN Ok([req EXCEPT !.parameterSchema = ps2])
    ELSE Ok(req)

\* OperationVisitor.visitParameter of operationVisitor.ts
ModuleVisitParameter(req, node) ==
    LET paramSchema == req.parameterSchema
    IN IF paramSchema = NoNode THEN Throw(req, TypeErrorUndefined)
       ELSE IF node.ref # NULL
            THEN Ok([req EXCEPT !.parameterSchema = PushAllOf(paramSchema, node)])
            ELSE LET ps1 == [paramSchema EXCEPT
                                !.properties = Put(@, node.name, WriteNode(node.schema))]
                     ps2 == IF node.required THEN PushRequired(ps1, node.name) ELSE ps1
                 IN Ok([req EXCEPT !.parameterSchema = ps2])

OpVisitParameter(v, req, node) ==
    IF v = "inline" THEN InlineVisitParameter(req, node)
    ELSE ModuleVisitParameter(req, node)


\* responseNameMap
responseNameMap ==
    (S_200 :> S_OK) @@ (S_201 :> S_Created) @@ (S_202 :> S_Accepted) @@
    (S_204 :> S_No_Content) @@ (S_400 :> S_Bad_Request) @@
    (S_401 :> S_Unauthorized) @@ (S_403 :> S_Forbidden) @@
    (S_404 :> S_Not_Found) @@ (S_405 :> S_Method_Not_Allowed)

\* node.getStatusCode() || "default"
StatusCodeOf(node) == IF node.statusCode = NoStr THEN S_default ELSE node.statusCode

\* altered: the lookup table is not consulted
ResponseNameIsCode(statusCode) == statusCode

\* responseNameMap.get(statusCode) || statusCode
ResponseNameBase(statusCode) ==
    IF statusCode \in DOMAIN responseNameMap THEN responseNameMap[statusCode]
    ELSE statusCode

\* responseNameBase + "-" + contentType.replace(/\W+(?!$)/g, "-").toLowerCase()
QualifiedName(base, name) == base \o <<"-">> \o Sanitize(name)

\* altered: the base entry of a response never gets its content type
BaseEntryBare(v, node) ==
    [statusCode |-> StatusCodeOf(node), description |-> node.description]

\* the entry written under the base name when there is at most one media type
BaseEntry(v, node) ==
    LET head == [statusCode |-> StatusCodeOf(node), description |-> node.description]
        mts == node.mediaTypes
    IN IF Len(mts) # 1 THEN head
       ELSE IF v = "inline" THEN Put(head, "contentType", mts[1].name)
       ELSE Put(Put(head, "contentType", mts[1].name),
                "contentSchema", WriteNode(mts[1].schema))

\* the entry written under the qualified name of one media type
TypeEntry(v, node, mt) ==
    LET e == [statusCode |-> StatusCodeOf(node), description |-> node.description,
              contentType |-> mt.name]
    IN IF v = "inline" THEN e ELSE Put(e, "contentSchema", WriteNode(mt.schema))

RECURSIVE TypeEntries(_, _, _, _)
\* for (const mediaType of mediaTypes) this.request["responses"][responseName] = ...
TypeEntries(v, node, mts, responses) ==
    IF mts = <<>> THEN responses
    ELSE TypeEntries(v, node, Tail(mts),
            Put(responses,
                QualifiedName(ResponseNameBase(StatusCodeOf(node)), mts[1].name),
                TypeEntry(v, node, mts[1])))

\* altered: the base entry is written only for a response with a media type
OpVisitResponseNeedsMedia(v, req, node) ==
    LET responseNameBase == ResponseNameBase(StatusCodeOf(node))
        mediaTypes == node.mediaTypes
        r1 == IF Len(mediaTypes) = 1
              THEN Put(req.responses, responseNameBase, BaseEntry(v, node))
              ELSE req.responses
    IN Ok([req EXCEPT !.responses = TypeEntries(v, node, mediaTypes, r1)])

\* OperationVisitor.visitResponse, both classes
OpVisitResponse(v, req, node) ==
    LET responseNameBase == ResponseNameBase(StatusCodeOf(node))
        mediaTypes == node.mediaTypes
        r1 == IF Len(mediaTypes) <= 1
              THEN Put(req.responses, responseNameBase, BaseEntry(v, node))
              ELSE req.responses
    IN Ok([req EXCEPT !.responses = TypeEntries(v, node, mediaTypes, r1)])

\* node.content[this.contentType]?.schema
BodySchema(body, ct) ==
    IF \E i \in 1..Len(body) : body[i].name = ct
    THEN (CHOOSE mt \in Range(body) : mt.name = ct).schema
    ELSE NoNode

\* OperationVisitor.visitRequestBody: empty in visitor.ts
OpVisitRequestBody(v, req, ct, body) ==
    IF v = "inline" THEN Ok(req)
    ELSE Ok(Put(req, "contentSchema", WriteNode(BodySchema(body, ct))))

\* OperationVisitor.visitExtension: not implemented in visitor.ts
OpVisitExtension(v, req, node) ==
    IF v = "inline" THEN Throw(req, NotImplemented)
    ELSE Ok(Put(req, node.name, node.value))

\* OperationVisitor.visitExternalDocumentation: not implemented in visitor.ts
OpVisitExternalDocumentation(v, req, node) ==
    IF v = "inline" THEN Throw(req, NotImplemented)
    ELSE Ok(Put(req, "externalDocumentation", WriteNode(node)))


\* ----------------------------------------------------------- the sub-walk
\* Library.visitTree(node, opVisitor, TraverserDirection.down) on an
\* operation: the library calls the visitor for the operation and then for
\* its children: the external documentation, the parameters, the request
\* body, the responses, the extensions.  Children whose handler is empty
\* (schemas, media types, headers, the responses collection) and security
\* requirements are left out.
Visit(kind, node, parent) == [kind |-> kind, node |-> node, parent |-> parent]

VisitAll(kind, nodes, parent) == [i \in 1..Len(nodes) |-> Visit(kind, nodes[i], parent)]

TraverseOperation(o) ==
    <<Visit("operation", o, "pathItem")>>
    \o (IF o.externalDocs = NoNode THEN <<>>
        ELSE <<Visit("externalDocs", o.externalDocs, "operation")>>)
    \o VisitAll("parameter", o.parameters, "operation")
    \o (IF o.requestBody = NoNode THEN <<>>
        ELSE <<Visit("requestBody", o.requestBody, "operation")>>)
    \o VisitAll("response", o.responses, "operation")
    \o VisitAll("extension", o.extensions, "operation")

\* new OperationVisitor(contentType)
NewOperationVisitor(ct) == [request |-> EmptyMap, contentType |-> ct]

\* one callback of the sub-walk returned, or threw
SubStep(res) ==
    /\ opv' = [opv EXCEPT !.request = res.request]
    /\ err' = res.err
    /\ sub' = Tail(sub)
    /\ seen' = Append(seen, Head(sub))
    /\ pc' = IF res.err # NULL THEN "crashed"
             ELSE IF Tail(sub) = <<>> THEN "return" ELSE "sub"
    /\ UNCHANGED <<variant, pathKeys, call, document, item, todo, op, cts,
                   sanIn, sanOut>>

AtSub(kind) == pc = "sub" /\ sub # <<>> /\ Head(sub).kind = kind

SubVisitOperation ==
    /\ AtSub("operation")
    /\ SubStep(OpVisitOperation(variant, opv.contentType, Head(sub).node))

SubVisitParameter ==
    /\ AtSub("parameter")
    /\ SubStep(OpVisitParameter(variant, opv.request, Head(sub).node))

SubVisitRequestBody ==
    /\ AtSub("requestBody")
    /\ SubStep(OpVisitRequestBody(variant, opv.request, opv.contentType,
                                  Head(sub).node.content))

SubVisitResponse ==
    /\ AtSub("response")
    /\ SubStep(OpVisitResponse(variant, opv.request, Head(sub).node))

SubVisitExtension ==
    /\ AtSub("extension")
    /\ SubStep(OpVisitExtension(variant, opv.request, Head(sub).node))

SubVisitExternalDocumentation ==
    /\ AtSub("externalDocs")
    /\ SubStep(OpVisitExternalDocumentation(variant, opv.request, Head(sub).node))

SubNext ==
    \/ SubVisitOperation
    \/ SubVisitParameter
    \/ SubVisitRequestBody
    \/ SubVisitResponse
    \/ SubVisitExtension
    \/ SubVisitExternalDocumentation


\* ------------------------------------------------------------ Oas30Visitor
\* The top-level walk of app.ts: Library.visitTree(document, visitor, down).
\* The library visits the document, the paths collection, the path item,
\* its operations, each followed by its parameters, and then the parameters
\* of the path item.  Handlers of Oas30Visitor that are empty, and
\* visitInfo, which only fills document.info, are left out.  The document
\* walked has one path item.
TraverseOrder == <<"get", "put", "post", "delete", "patch">>

RECURSIVE TraverseOps(_, _)
TraverseOps(node, ms) ==
    IF ms = <<>> THEN <<>>
    ELSE (IF node.ops[ms[1]] = NoNode THEN <<>>
          ELSE <<Visit("operation", node.ops[ms[1]], "pathItem")>>
               \o VisitAll("parameter", node.ops[ms[1]].parameters, "operation"))
         \o TraverseOps(node, Tail(ms))

TraverseDocument(node) ==
    <<Visit("document", NoNode, "none"), Visit("paths", NoNode, "document"),
      Visit("pathItem", node, "paths")>>
    \o TraverseOps(node, TraverseOrder)
    \o VisitAll("parameter", node.parameters, "pathItem")

\* node.requestBody?.getMediaTypes().map((n) => n.getName()) || []
ContentTypesOf(o) ==
    IF o.requestBody = NoNode THEN <<>>
    ELSE [i \in 1..Len(o.requestBody.content) |-> o.requestBody.content[i].name]

\* the content types visitOperation runs one sub-walk for: the single one
\* (or undefined) when there is at most one, else each of them
FanOut(o) ==
    LET contentTypes == ContentTypesOf(o)
    IN IF Len(contentTypes) <= 1
       THEN <<IF contentTypes = <<>> THEN NoStr ELSE contentTypes[1]>>
       ELSE contentTypes

\* node.operationId || node.getMethod(), with the sanitized content type
\* appended when the operation has two or more content types
RequestKey(o, ct) ==
    LET base == IF o.operationId # NoStr THEN o.operationId ELSE o.method
    IN IF Len(ContentTypesOf(o)) <= 1 THEN base
       ELSE base \o <<"-">> \o Sanitize(ct)

\* this.document["paths"][pathKey] = { summary, description }
NewPathEntry == [summary |-> NULL, description |-> NULL]

SetPathEntry(paths, key) == Put(paths, key, NewPathEntry)

\* if (!entry["requests"]) entry["requests"] = {}
EnsureRequests(entry) ==
    IF "requests" \in DOMAIN entry THEN entry ELSE Put(entry, "requests", EmptyMap)

\* Oas30Visitor.visitParameter on a path-level parameter, given the path entry
PathVisitParameter(entry, node) ==
    IF node.in \notin {"path", "query"} THEN entry
    ELSE LET e1 == IF "parameterSchema" \in DOMAIN entry THEN entry
                   ELSE Put(entry, "parameterSchema", Skeleton)
         IN [e1 EXCEPT !.parameterSchema.properties =
                           Put(@, node.name, InlineSchema(node.schema))]

AtWalk(kind) == pc = "walk" /\ todo # <<>> /\ Head(todo).kind = kind

\* Oas30Visitor.visitDocument
VisitDocument ==
    /\ AtWalk("document")
    /\ document' = [openapi |-> "4.0.0"]
    /\ todo' = Tail(todo)
    /\ UNCHANGED <<variant, pathKeys, call, item, op, cts, opv, sub, seen, pc,
                   err, sanIn, sanOut>>

\* Oas30Visitor.visitPaths
VisitPaths ==
    /\ AtWalk("paths")
    /\ document' = Put(document, "paths", EmptyMap)
    /\ todo' = Tail(todo)
    /\ UNCHANGED <<variant, pathKeys, call, item, op, cts, opv, sub, seen, pc,
                   err, sanIn, sanOut>>

\* Oas30Visitor.visitPathItem
VisitPathItem ==
    /\ AtWalk("pathItem")
    /\ LET r == getPathKey(pathKeys, Head(todo).node)
       IN /\ pathKeys' = r.keys
          /\ document' = [document EXCEPT !.paths = SetPathEntry(@, r.result)]
    /\ todo' = Tail(todo)
    /\ UNCHANGED <<variant, call, item, op, cts, opv, sub, seen, pc, err,
                   sanIn, sanOut>>

\* Oas30Visitor.visitParameter
VisitParameter ==
    /\ AtWalk("parameter")
    /\ IF Head(todo).parent = "pathItem"
       THEN LET r == getPathKey(pathKeys, item)
            IN /\ pathKeys' = r.keys
               /\ document' = [document EXCEPT !.paths[r.result] =
                                   PathVisitParameter(@, Head(todo).node)]
       ELSE UNCHANGED <<pathKeys, document>>
    /\ todo' = Tail(todo)
    /\ UNCHANGED <<variant, call, item, op, cts, opv, sub, seen, pc, err,
                   sanIn, sanOut>>

\* Oas30Visitor.visitOperation up to the start of its first sub-walk
VisitOperation ==
    /\ AtWalk("operation")
    /\ LET node == Head(todo).node
           r == getPathKey(pathKeys, item)
       IN /\ pathKeys' = r.keys
          /\ document' = [document EXCEPT !.paths[r.result] = EnsureRequests(@)]
          /\ op' = node
          /\ opv' = NewOperationVisitor(Head(FanOut(node)))
          /\ cts' = Tail(FanOut(node))
          /\ sub' = TraverseOperation(node)
    /\ seen' = <<>>
    /\ pc' = "sub"
    /\ todo' = Tail(todo)
    /\ UNCHANGED <<variant, call, item, err, sanIn, sanOut>>

\* Oas30Visitor.visitOperation after a sub-walk: the request is stored under
\* its key, and the next content type, if any, gets its sub-walk
InsertRequest ==
    /\ pc = "return"
    /\ item # NoNode
    /\ LET pathKey == getPathKey(pathKeys, item).result
           requestKey == RequestKey(op, opv.contentType)
       IN document' = [document EXCEPT !.paths[pathKey].requests =
                          Put(@, requestKey, opv.request)]
    /\ IF cts = <<>>
       THEN /\ pc' = "walk"
            /\ UNCHANGED <<opv, sub, seen, cts>>
       ELSE /\ opv' = NewOperationVisitor(Head(cts))
            /\ cts' = Tail(cts)
            /\ sub' = TraverseOperation(op)
            /\ seen' = <<>>
            /\ pc' = "sub"
    /\ UNCHANGED <<variant, pathKeys, call, item, todo, op, err, sanIn, sanOut>>

\* app.ts: console.log(JSON.stringify(visitor.document, null, 2))
Output ==
    /\ pc = "walk"
    /\ todo = <<>>
    /\ pc' = "done"
    /\ UNCHANGED <<variant, pathKeys, call, document, item, todo, op, cts, opv,
                   sub, seen, err, sanIn, sanOut>>


\* ------------------------------------------------------------------ inputs
StatusCodes == {NoStr, S_200, S_201, S_202, S_204, S_400, S_401, S_403, S_404,
                S_405, S_500}

MediaLists ==
    {q \in SeqsUpTo(MediaTypes, MaxMediaTypes) :
        \A i, j \in 1..Len(q) : i # j => q[i].name # q[j].name}

Responses == {Response(c, "a description", mts) : c \in StatusCodes, mts \in MediaLists}

ResponseLists ==
    {q \in SeqsUpTo(Responses, MaxResponses) :
        /\ Len(q) >= 1
        /\ \A i, j \in 1..Len(q) : i # j => q[i].statusCode # q[j].statusCode}

DefaultResponse == Response(NoStr, "a description", <<>>)

MT_ab == MediaType(S_a_slash_b, "string")
MT_a_b == MediaType(S_a_plus_b, "integer")
MT_c == MediaType(S_c, "string")

X_a == Extension("x-a", <<"v">>)

\* operations that differ in their parameters, in their responses, and in
\* their request body, extensions and external documentation
ParamOps ==
    {Operation("get", NoStr, ps, NoNode, <<DefaultResponse>>, <<>>, NoNode) :
        ps \in SeqsUpTo(Params, MaxParams)}

RespOps ==
    {Operation("post", NoStr, <<>>, NoNode, rs, <<>>, NoNode) : rs \in ResponseLists}

OtherOps ==
    {Operation("put", id, ps, body, <<DefaultResponse>>, xs, docs) :
        id \in {NoStr, S_x}, ps \in {<<>>, <<P_qa>>},
        body \in {NoNode, RequestBody(<<MT_ab>>), RequestBody(<<MT_ab, MT_c>>)},
        xs \in {<<>>, <<X_a>>}, docs \in {NoNode, ExternalDocs}}

OpInputs == ParamOps \cup RespOps \cup OtherOps

\* the operations of the documents walked from the top
WalkOp(m, k) ==
    CASE k = 1 -> Operation(m, NoStr, <<>>, NoNode, <<DefaultResponse>>, <<>>, NoNode)
      [] k = 2 -> Operation(m, S_put, <<P_qa>>, RequestBody(<<MT_ab>>),
                            <<Response(S_200, "a description", <<MT_ab>>)>>, <<>>, NoNode)
      [] k = 3 -> Operation(m, NoStr, <<P_pa>>, RequestBody(<<MT_ab, MT_a_b>>),
                            <<DefaultResponse>>, <<>>, NoNode)
      [] k = 4 -> Operation(m, S_x, <<>>, RequestBody(<<MT_ab, MT_c>>),
                            <<DefaultResponse>>, <<>>, NoNode)
      [] k = 5 -> Operation(m, NoStr, <<P_hb>>, NoNode, <<DefaultResponse>>, <<>>, NoNode)
      [] k = 6 -> Operation(m, NoStr, <<>>, NoNode, <<DefaultResponse>>, <<X_a>>, NoNode)
      [] k = 7 -> Operation(m, NoStr, <<P_qb>>, NoNode, <<DefaultResponse>>, <<>>,
                            ExternalDocs)

WalkOpKinds == {1, 2, 3, 4, 5, 6, 7}

OpSlots == {S \in SUBSET Methods : Cardinality(S) <= MaxOps}

\* operationId is unique among the operations of a valid document
UniqueIds(os) ==
    \A m, n \in Methods :
        (m # n /\ os[m] # NoNode /\ os[n] # NoNode /\ os[m].operationId # NoStr)
            => os[m].operationId # os[n].operationId

WalkOpsOf ==
    {os \in UNION {{[m \in Methods |-> IF m \in S THEN WalkOp(m, g[m]) ELSE NoNode] :
                      g \in [S -> WalkOpKinds]} : S \in OpSlots} : UniqueIds(os)}

PathParamLists == {<<>>, <<P_pa>>, <<P_hb>>, <<P_qb, RefParam>>}

WalkItems == {PathItem(S_slash_p, os, ps) : os \in WalkOpsOf, ps \in PathParamLists}

\* the path items handed to getPathKey on its own
KeyParamLists == {<<>>, <<P_qa>>, <<P_qb>>, <<P_hb>>, <<P_qa, P_qb>>, <<P_qa, P_qa2>>,
                  <<P_pa, P_qb>>, <<RefParam>>}

KeyOpsOf ==
    UNION {{[m \in Methods |->
                IF m \in S
                THEN Operation(m, NoStr, g[m], NoNode, <<DefaultResponse>>, <<>>, NoNode)
                ELSE NoNode] : g \in [S -> KeyParamLists]} : S \in OpSlots}

KeyItems == {PathItem(p, os, <<>>) : p \in {S_slash_p, S_slash_q}, os \in KeyOpsOf}

\* ----------------------------------------------------------- specifications
Idle ==
    /\ variant = "inline"
    /\ pathKeys = EmptyMap
    /\ call = NoNode
    /\ document = NoNode
    /\ item = NoNode
    /\ todo = <<>>
    /\ op = NoNode
    /\ cts = <<>>
    /\ opv = NoNode
    /\ sub = <<>>
    /\ seen = <<>>
    /\ err = NULL
    /\ sanIn = NoStr
    /\ sanOut = NoStr

\* app.ts: one document, with one path item, is walked by a new Oas30Visitor
Init ==
    /\ variant \in Variants
    /\ pathKeys = EmptyMap
    /\ call = NoNode
    /\ document = NoNode
    /\ item \in WalkItems
    /\ todo = TraverseDocument(item)
    /\ op = NoNode
    /\ cts = <<>>
    /\ opv = NoNode
    /\ sub = <<>>
    /\ seen = <<>>
    /\ pc = "walk"
    /\ err = NULL
    /\ sanIn = NoStr
    /\ sanOut = NoStr

Next ==
    \/ VisitDocument
    \/ VisitPaths
    \/ VisitPathItem
    \/ VisitParameter
    \/ VisitOperation
    \/ InsertRequest
    \/ Output
    \/ SubNext

Spec == Init /\ [][Next]_vars

\* one sub-walk of an OperationVisitor over an operation
OpInit ==
    /\ variant \in Variants
    /\ pathKeys = EmptyMap
    /\ call = NoNode
    /\ document = NoNode
    /\ item = NoNode
    /\ todo = <<>>
    /\ op \in OpInputs
    /\ cts = <<>>
    /\ opv \in {NewOperationVisitor(ct) : ct \in Range(FanOut(op))}
    /\ sub = TraverseOperation(op)
    /\ seen = <<>>
    /\ pc = "sub"
    /\ err = NULL
    /\ sanIn = NoStr
    /\ sanOut = NoStr

SpecOp == OpInit /\ [][SubNext]_vars

\* the calls of getPathKey a process makes, one after the other
CallGetPathKey ==
    /\ pc = "key"
    /\ call = NoNode
    /\ \E node \in KeyItems :
          LET r == getPathKey(pathKeys, node)
          IN /\ pathKeys' = r.keys
             /\ call' = [node |-> node, result |-> r.result, scanned |-> r.scanned]
    /\ UNCHANGED <<variant, document, item, todo, op, cts, opv, sub, seen, pc,
                   err, sanIn, sanOut>>

ReturnGetPathKey ==
    /\ pc = "key"
    /\ call # NoNode
    /\ call' = NoNode
    /\ UNCHANGED <<variant, pathKeys, document, item, todo, op, cts, opv, sub,
                   seen, pc, err, sanIn, sanOut>>

KeyInit == Idle /\ pc = "key"

KeyNext == CallGetPathKey \/ ReturnGetPathKey

SpecKey == KeyInit /\ [][KeyNext]_vars

\* the key sanitizer on its own
ApplySanitize ==
    /\ pc = "sanitize"
    /\ sanOut' = Sanitize(sanIn)
    /\ pc' = "sanitized"
    /\ UNCHANGED <<variant, pathKeys, call, document, item, todo, op, cts, opv,
                   sub, seen, err, sanIn>>

SanInit ==
    /\ variant = "inline"
    /\ pathKeys = EmptyMap
    /\ call = NoNode
    /\ document = NoNode
    /\ item = NoNode
    /\ todo = <<>>
    /\ op = NoNode
    /\ cts = <<>>
    /\ opv = NoNode
    /\ sub = <<>>
    /\ seen = <<>>
    /\ pc = "sanitize"
    /\ err = NULL
    /\ sanIn \in SeqsUpTo(Chars, MaxStrLen)
    /\ sanOut = NoStr

SanNext == ApplySanitize

SpecSan == SanInit /\ [][SanNext]_vars


\* ------------------------------------------------------------------ claims
\* What the claims say of getPathKey, written from their words.
RECURSIVE QueryNames(_)
QueryNames(ps) ==
    IF ps = <<>> THEN <<>>
    ELSE (IF ps[1].in = "query" THEN <<ps[1].name>> ELSE <<>>) \o QueryNames(Tail(ps))

NamesOfSlot(node, m) ==
    IF node.ops[m] = NoNode THEN <<>> ELSE QueryNames(node.ops[m].parameters)

AllQueryNames(node) ==
    NamesOfSlot(node, "get") \o NamesOfSlot(node, "put") \o NamesOfSlot(node, "post")
    \o NamesOfSlot(node, "patch") \o NamesOfSlot(node, "delete")

RECURSIVE FirstEncounters(_, _)
FirstEncounters(all, i) ==
    IF i > Len(all) THEN <<>>
    ELSE (IF \E k \in 1..(i - 1) : all[k] = all[i] THEN <<>> ELSE <<all[i]>>)
         \o FirstEncounters(all, i + 1)

RECURSIVE WithCommas(_)
WithCommas(names) ==
    IF Len(names) = 1 THEN names[1]
    ELSE names[1] \o <<",">> \o WithCommas(Tail(names))

ClaimedKey(node) ==
    LET names == FirstEncounters(AllQueryNames(node), 1)
    IN IF names = <<>> THEN node.path
       ELSE node.path \o <<"{", "?">> \o WithCommas(names) \o <<"}">>

\* C1 as stated: every call of getPathKey, whatever calls came before it,
\* returns the raw path when the path item has no query parameter, and else
\* the raw path followed by {?names}, the names being those of the query
\* parameters of get, put, post, patch, delete in order of first encounter.
C1_EveryCallComputesKey ==
    call # NoNode => call.result = ClaimedKey(call.node)

\* C1 amended: a call of getPathKey for a raw path that no earlier call of
\* the process had returns the key as C1 states it; a call for a raw path
\* that an earlier call had returns the key of that earlier call.
C1_FirstCallComputesKey ==
    [][(call = NoNode /\ call' # NoNode) =>
          call'.result = IF call'.node.path \in DOMAIN pathKeys
                         THEN pathKeys[call'.node.path]
                         ELSE ClaimedKey(call'.node)]_vars

\* a first call for a path whose operations repeat a query-parameter name,
\* across at least two operations, has returned a key with {?...}
C1_Witness ==
    /\ call # NoNode
    /\ call.scanned
    /\ call.result # call.node.path
    /\ call.result = ClaimedKey(call.node)
    /\ Len(FirstEncounters(AllQueryNames(call.node), 1)) = 2
    /\ Len(AllQueryNames(call.node)) > 2
    /\ Cardinality({m \in Methods : NamesOfSlot(call.node, m) # <<>>}) >= 2

\* C2: getPathKey is memoized by raw path: once a raw path has a key, a later
\* call with any path item of that raw path returns that same key without
\* scanning the path item, and no entry of pathKeys is ever changed or
\* removed.
C2_Memoized ==
    [][/\ \A p \in DOMAIN pathKeys :
             p \in DOMAIN pathKeys' /\ pathKeys'[p] = pathKeys[p]
       /\ (call = NoNode /\ call' # NoNode /\ call'.node.path \in DOMAIN pathKeys)
             => (call'.result = pathKeys[call'.node.path] /\ ~call'.scanned)]_vars

\* a call has returned the memoized key of a path item whose own query
\* parameters would give another key
C2_Witness ==
    /\ call # NoNode
    /\ ~call.scanned
    /\ call.result = pathKeys[call.node.path]
    /\ call.result # ClaimedKey(call.node)


\* What C5 says of the sanitizer, written from its words: the end of the
\* maximal run of non-word characters that starts at i
RunEnd(s, i) ==
    CHOOSE j \in i..Len(s) :
        /\ \A k \in i..j : IsNonWord(s[k])
        /\ (j = Len(s) \/ ~IsNonWord(s[j + 1]))

RECURSIVE TrailingUntouched(_, _)
TrailingUntouched(s, i) ==
    IF i > Len(s) THEN <<>>
    ELSE IF ~IsNonWord(s[i]) THEN <<LowerChar(s[i])>> \o TrailingUntouched(s, i + 1)
    ELSE IF RunEnd(s, i) = Len(s) THEN SubSeq(s, i, Len(s))
    ELSE <<"-">> \o TrailingUntouched(s, RunEnd(s, i) + 1)

RECURSIVE TrailingLastKept(_, _)
TrailingLastKept(s, i) ==
    IF i > Len(s) THEN <<>>
    ELSE IF ~IsNonWord(s[i]) THEN <<LowerChar(s[i])>> \o TrailingLastKept(s, i + 1)
    ELSE IF RunEnd(s, i) = Len(s)
         THEN (IF i < Len(s) THEN <<"-", s[Len(s)]>> ELSE <<s[Len(s)]>>)
    ELSE <<"-">> \o TrailingLastKept(s, RunEnd(s, i) + 1)

\* the length of the run of non-word characters at the end of s
TrailingRun(s) ==
    Cardinality({i \in 1..Len(s) : \A k \in i..Len(s) : IsNonWord(s[k])})

\* C5 as stated: the sanitizer lowercases the string and replaces every
\* maximal run of non-word characters that is not at the end of the string
\* by one hyphen, and leaves a trailing run, of any length, untouched.
C5_TrailingRunUntouched ==
    pc = "sanitized" => sanOut = TrailingUntouched(sanIn, 1)

\* C5 amended: the sanitizer lowercases the string and replaces every
\* maximal run of non-word characters that is not at the end of the string
\* by one hyphen; of a trailing run it leaves the last character untouched
\* and replaces the characters before it, if there are any, by one hyphen.
C5_TrailingRunKeepsLast ==
    pc = "sanitized" => sanOut = TrailingLastKept(sanIn, 1)

\* a string with an upper-case letter, a run of two non-word characters in
\* front of it and a trailing run of two has been sanitized
C5_Witness ==
    /\ pc = "sanitized"
    /\ Len(sanIn) = 5
    /\ IsNonWord(sanIn[1]) /\ IsNonWord(sanIn[2])
    /\ sanIn[3] = "B"
    /\ TrailingRun(sanIn) = 2
    /\ sanOut = <<"-", "b", "-", sanIn[5]>>


\* the responses the running sub-walk has visited
VisitedResponses == {seen[i].node : i \in {j \in 1..Len(seen) : seen[j].kind = "response"}}

\* What C7 says: the base name of a status code, and the statusCode field
ClaimedBaseName(code) ==
    CASE code = S_200 -> S_OK
      [] code = S_201 -> S_Created
      [] code = S_202 -> S_Accepted
      [] code = S_204 -> S_No_Content
      [] code = S_400 -> S_Bad_Request
      [] code = S_401 -> S_Unauthorized
      [] code = S_403 -> S_Forbidden
      [] code = S_404 -> S_Not_Found
      [] code = S_405 -> S_Method_Not_Allowed
      [] code = NoStr -> S_default
      [] OTHER -> code

ClaimedStatusCode(code) == IF code = NoStr THEN S_default ELSE code

ClaimedQualifiedName(r, mt) == ClaimedBaseName(r.statusCode) \o <<"-">> \o Sanitize(mt.name)

\* the entries of request.responses that carry the status code of response r
EntriesOf(r) ==
    {k \in DOMAIN opv.request.responses :
        opv.request.responses[k].statusCode = ClaimedStatusCode(r.statusCode)}

\* C6: a response with exactly one media type leaves exactly two entries in
\* request.responses, one under the base status name and one under
\* <base>-<sanitized media type>, and the two entries carry the same
\* statusCode, description, contentType and contentSchema.
C6_OneMediaTypeTwoEntries ==
    \A r \in VisitedResponses :
        Len(r.mediaTypes) = 1 =>
            LET base == ClaimedBaseName(r.statusCode)
                qual == ClaimedQualifiedName(r, r.mediaTypes[1])
                rs == opv.request.responses
            IN /\ EntriesOf(r) = {base, qual}
               /\ base # qual
               /\ rs[base] = rs[qual]
               /\ rs[base].statusCode = ClaimedStatusCode(r.statusCode)
               /\ rs[base].description = r.description
               /\ rs[base].contentType = r.mediaTypes[1].name
               /\ ("contentSchema" \in DOMAIN rs[base]
                     => rs[base].contentSchema = WriteNode(r.mediaTypes[1].schema))

\* the OperationVisitor of operationVisitor.ts has visited a 404 response
\* with the one media type a+b: both entries are there, with its schema
C6_Witness ==
    /\ variant = "module"
    /\ \E r \in VisitedResponses :
          /\ r.statusCode = S_404
          /\ Len(r.mediaTypes) = 1
          /\ r.mediaTypes[1].name = S_a_plus_b
          /\ DOMAIN opv.request.responses =
                {S_Not_Found, S_Not_Found \o <<"-", "a", "-", "b">>}
          /\ opv.request.responses[S_Not_Found].contentSchema =
                WriteNode(Schema("integer"))

\* C7: the base name of a response is OK, Created, Accepted, No Content, Bad
\* Request, Unauthorized, Forbidden, Not Found, Method Not Allowed for the
\* status codes 200, 201, 202, 204, 400, 401, 403, 404, 405, the code itself
\* for any other code and "default" for a response without status code,
\* whose entries then have the statusCode "default"; no statusCode is empty.
C7_BaseNameLookup ==
    /\ \A r \in VisitedResponses :
          LET rs == opv.request.responses
              base == ClaimedBaseName(r.statusCode)
          IN /\ Len(r.mediaTypes) <= 1 =>
                   /\ base \in DOMAIN rs
                   /\ rs[base].statusCode = ClaimedStatusCode(r.statusCode)
             /\ \A i \in 1..Len(r.mediaTypes) :
                   /\ ClaimedQualifiedName(r, r.mediaTypes[i]) \in DOMAIN rs
                   /\ rs[ClaimedQualifiedName(r, r.mediaTypes[i])].statusCode =
                         ClaimedStatusCode(r.statusCode)
             /\ EntriesOf(r) =
                   (IF Len(r.mediaTypes) <= 1 THEN {base} ELSE {})
                   \cup {ClaimedQualifiedName(r, r.mediaTypes[i]) :
                            i \in 1..Len(r.mediaTypes)}
    /\ (opv # NoNode /\ "responses" \in DOMAIN opv.request) =>
          \A k \in DOMAIN opv.request.responses :
              opv.request.responses[k].statusCode # NoStr

\* a response without status code and without media type has been visited
\* and its entry is under "default", with the statusCode "default"
C7_Witness ==
    /\ \E r \in VisitedResponses : r.statusCode = NoStr /\ r.mediaTypes = <<>>
    /\ DOMAIN opv.request.responses = {S_default}
    /\ opv.request.responses[S_default].statusCode = S_default


\* the requests of the path entry of the walked path item
Requests == document.paths[pathKeys[item.path]].requests

\* visitOperation has ended for op, by returning or by throwing, and no
\* later operation has been visited
OperationEnded == op # NoNode /\ item # NoNode /\ pc \in {"walk", "done", "crashed"}

\* the keys of the request entries that come from operation o (an operation
\* is the only one of its method in its path item)
KeysOf(o) == {k \in DOMAIN Requests : Requests[k].method = o.method}

ClaimedBase(o) == IF o.operationId # NoStr THEN o.operationId ELSE o.method

\* C3: for an operation with zero or one request content type (or no request
\* body), visitOperation runs one sub-walk and inserts exactly one request
\* entry, under operationId, or under the method name when there is none.
C3_OneRequestEntry ==
    (OperationEnded /\ Len(ContentTypesOf(op)) <= 1) =>
        /\ KeysOf(op) = {ClaimedBase(op)}
        /\ Requests[ClaimedBase(op)].contentType =
              (IF ContentTypesOf(op) = <<>> THEN NoStr ELSE ContentTypesOf(op)[1])

\* C4: for an operation with N >= 2 distinct request content types,
\* visitOperation produces exactly N request keys, each of them
\* <operationId-or-method>-<sanitized content type>.
C4_OneRequestEntryPerContentType ==
    (OperationEnded /\ Len(ContentTypesOf(op)) >= 2) =>
        /\ KeysOf(op) = {ClaimedBase(op) \o <<"-">> \o Sanitize(ContentTypesOf(op)[i]) :
                            i \in 1..Len(ContentTypesOf(op))}
        /\ Cardinality(KeysOf(op)) = Len(ContentTypesOf(op))

\* C8: no insertion into paths[pathKey].requests overwrites an entry that an
\* earlier insertion made for another operation or another content type:
\* the key visitOperation is about to insert under is not in requests yet.
C8_NoRequestOverwritten ==
    (pc = "return" /\ item # NoNode) =>
        RequestKey(op, opv.contentType) \notin DOMAIN Requests

\* What C9 says of the parameters of the operation of the sub-walk
InlinePathOrQuery(o) ==
    SelectSeq(o.parameters, LAMBDA q : q.ref = NULL /\ q.in \in {"path", "query"})

ClaimedRequired(o) ==
    LET req == SelectSeq(InlinePathOrQuery(o), LAMBDA q : q.required)
    IN [i \in 1..Len(req) |-> req[i].name]

Serialized(sch) == IF variant = "inline" THEN InlineSchema(sch) ELSE WriteNode(sch)

\* C9: after a sub-walk over an operation with an inline path or query
\* parameter, request.parameterSchema has the type "object", properties[name]
\* holds the serialized schema of each such parameter, and required lists
\* the names of the required ones in declaration order and is there only if
\* one is required.
C9_ParameterSchema ==
    (pc = "return" /\ InlinePathOrQuery(op) # <<>>) =>
        LET ps == opv.request.parameterSchema
            qs == InlinePathOrQuery(op)
        IN /\ ps # NoNode
           /\ ps.type = "object"
           /\ \A i \in 1..Len(qs) :
                 /\ qs[i].name \in DOMAIN ps.properties
                 /\ ps.properties[qs[i].name] = Serialized(qs[i].schema)
           /\ IF ClaimedRequired(op) = <<>> THEN "required" \notin DOMAIN ps
              ELSE "required" \in DOMAIN ps /\ ps.required = ClaimedRequired(op)

\* an operation that has nothing but a method and responses, and perhaps a
\* request body
Bare(o) == o.parameters = <<>> /\ o.extensions = <<>> /\ o.externalDocs = NoNode

BareItem == \A m \in Methods : item.ops[m] = NoNode \/ Bare(item.ops[m])

OpsOf(node) == {node.ops[m] : m \in {n \in Methods : node.ops[n] # NoNode}}

C11_OtherLocationsIgnored ==
    [][(AtSub("parameter") /\ Head(sub).node.ref = NULL
           /\ Head(sub).node.in \notin {"path", "query"})
          => (opv'.request = opv.request /\ err' = NULL /\ pc' # "crashed")]_vars

\* What C12 says of the reference parameters of the operation of the sub-walk
RefParams(o) == SelectSeq(o.parameters, LAMBDA q : q.ref # NULL)

ClaimedAllOf(o) == [i \in 1..Len(RefParams(o)) |-> WriteNode(RefParams(o)[i])]

\* C12: a sub-walk over an operation that declares a reference parameter
\* ends without error, and request.parameterSchema.allOf then lists the
\* serialized reference parameters in visit order, whether or not the
\* operation has an inline path or query parameter.
C12_ReferencesAppended ==
    (op # NoNode /\ RefParams(op) # <<>> /\ pc \in {"return", "crashed"}) =>
        /\ pc = "return"
        /\ opv.request.parameterSchema # NoNode
        /\ "allOf" \in DOMAIN opv.request.parameterSchema
        /\ opv.request.parameterSchema.allOf = ClaimedAllOf(op)

\* the required list of the parameterSchema of a path entry, empty when
\* there is none
RequiredOf(entry) ==
    IF "parameterSchema" \in DOMAIN entry
          /\ "required" \in DOMAIN entry.parameterSchema
    THEN entry.parameterSchema.required
    ELSE <<>>

\* C13: a parameter visit of the top-level visitor changes the document only
\* for a parameter of the path item whose location is path or query; such a
\* parameter gets its schema under parameterSchema.properties[name] of the
\* path entry and, if it is required, its name appended to the required
\* list of that parameterSchema.
C13_PathLevelParameter ==
    [][AtWalk("parameter") =>
          LET node == Head(todo).node
              key == pathKeys[item.path]
          IN IF Head(todo).parent # "pathItem" \/ node.in \notin {"path", "query"}
             THEN document' = document
             ELSE /\ "parameterSchema" \in DOMAIN document'.paths[key]
                  /\ node.name \in DOMAIN document'.paths[key].parameterSchema.properties
                  /\ document'.paths[key].parameterSchema.properties[node.name]
                        = InlineSchema(node.schema)
                  /\ RequiredOf(document'.paths[key]) =
                        IF node.required
                        THEN Append(RequiredOf(document.paths[key]), node.name)
                        ELSE RequiredOf(document.paths[key])]_vars

\* C14: a visited response with M media types has an entry under its base
\* key exactly when M <= 1, that entry has a contentType exactly when M = 1
\* and a contentSchema only then, there is one entry per media type under
\* <base>-<sanitized media type>, M of them in all, and with M = 0 the base
\* entry, with statusCode and description alone, is the only one.
C14_EntriesByMediaTypeCount ==
    \A r \in VisitedResponses :
        LET M == Len(r.mediaTypes)
            base == ClaimedBaseName(r.statusCode)
            rs == opv.request.responses
            quals == {ClaimedQualifiedName(r, r.mediaTypes[i]) : i \in 1..M}
        IN /\ (base \in DOMAIN rs) <=> (M <= 1)
           /\ M <= 1 =>
                 /\ ("contentType" \in DOMAIN rs[base]) <=> (M = 1)
                 /\ ("contentSchema" \in DOMAIN rs[base]) => (M = 1)
           /\ quals \subseteq DOMAIN rs
           /\ EntriesOf(r) \ {base} = quals
           /\ Cardinality(quals) = M
           /\ M = 0 =>
                 /\ EntriesOf(r) = {base}
                 /\ rs[base] = [statusCode |-> ClaimedStatusCode(r.statusCode),
                                description |-> r.description]

====
